---------------------------- MODULE Spec2Model ----------------------------
(***************************************************************************)
(* Model of scripts/metrics/daily_code_stats.py: the daily per-developer   *)
(* code output report (GitLab collection, line classification, standards   *)
(* evaluation, notification dispatch).                                     *)
(*                                                                         *)
(* Text is modelled as sequences of one-character strings, so that         *)
(* splitting, joining, prefix tests and the exclusion patterns are         *)
(* computed on the characters as the Python code computes them.            *)
(***************************************************************************)
EXTENDS Integers, Sequences, FiniteSets, TLC

VARIABLES
    \* ---- main() and collect_stats() ----
    pc,             \* position of main(): "main", "projects", "commits", "commit",
                    \* "collected", "wecom", "dingtalk", "telegram", "return", "exit"
    env,            \* names of the environment variables that are set (non-empty)
    projects,       \* collect_stats: the list returned by get_group_projects
    pidx,           \* collect_stats: index of the project of the outer loop
    commits,        \* collect_stats: the list returned by get_project_commits
    cidx,           \* collect_stats: index of the commit of the inner loop
    developers,     \* collect_stats: Dict[str, DeveloperStats]
    listed,         \* history: number of commits the listings have returned
    diff_failed,    \* history: ids of the commits whose diff request failed
    failure,        \* history: origin of a failed call: "none", "listing", "file", "notify"
    report_saved,   \* the report file has been written
    attempted,      \* history: channels whose send_* function was called
    failed_channels,\* history: channels whose delivery failed
    exit_code,      \* return value of main(); -1 while main() is running
    \* ---- GitLabClient._get_all ----
    server,         \* the page sizes the listing endpoint serves, page 1 first
    page,           \* _get_all: page
    results,        \* _get_all: results
    requested,      \* history: the page numbers requested, in order
    gpc,            \* _get_all: "loop", "returned", "raised"
    \* ---- send_telegram ----
    content,        \* send_telegram: content
    parts,          \* send_telegram: parts
    sent,           \* history: the texts posted to the bot API, in order
    tpc,            \* send_telegram: "split", "post", "returned", "raised"
    \* ---- DeveloperStats.meets_standard ----
    dev,            \* the DeveloperStats evaluated
    verdict,        \* the (passed, issues) pair returned, <<>> before the call
    \* ---- count_effective_lines ----
    hunk,           \* the diff body as the changes it renders: <<[kind, text]>>
    diff_content,   \* count_effective_lines: diff_content
    effective       \* count_effective_lines: the value returned, -1 before the call

mainVars == <<pc, env, projects, pidx, commits, cidx, developers, listed,
              diff_failed, failure, report_saved, attempted, failed_channels,
              exit_code>>
pageVars == <<server, page, results, requested, gpc>>
telegramVars == <<content, parts, sent, tpc>>
standardVars == <<dev, verdict>>
diffVars == <<hunk, diff_content, effective>>
vars == <<mainVars, pageVars, telegramVars, standardVars, diffVars>>
notMainVars == <<pageVars, telegramVars, standardVars, diffVars>>

(***************************************************************************)
(* Bounds of the model.                                                    *)
(***************************************************************************)
MaxProjects == 2
MaxCommits == 2
MaxPages == 3
MaxLines == 3
MaxCommitCount == 3
MaxHunkLines == 2

(***************************************************************************)
(* Text helpers (Python str operations).                                   *)
(***************************************************************************)
NL == "\n"

Rep(c, n) == [i \in 1..n |-> c]

\* str.startswith at an offset: s[i:].startswith(w)
HasAt(s, i, w) ==
    /\ i + Len(w) - 1 <= Len(s)
    /\ SubSeq(s, i, i + Len(w) - 1) = w

startswith(s, w) == HasAt(s, 1, w)

endswith(s, w) == Len(w) <= Len(s) /\ SubSeq(s, Len(s) - Len(w) + 1, Len(s)) = w

\* str.split("\n"): the pieces between the newlines, always at least one
split(s) ==
    LET b == {i \in 1..Len(s) : s[i] = NL}
        k == Cardinality(b)
        pos == [j \in 0..(k + 1) |->
                  IF j = 0 THEN 0
                  ELSE IF j = k + 1 THEN Len(s) + 1
                  ELSE CHOOSE p \in b : Cardinality({q \in b : q < p}) = j - 1]
    IN [j \in 1..(k + 1) |-> SubSeq(s, pos[j - 1] + 1, pos[j] - 1)]

\* "\n".join(ls)
RECURSIVE join(_)
join(ls) ==
    IF Len(ls) = 0 THEN <<>>
    ELSE IF Len(ls) = 1 THEN ls[1]
    ELSE join(SubSeq(ls, 1, Len(ls) - 1)) \o <<NL>> \o ls[Len(ls)]

\* dict.get(key, default)
Get(d, k, default) == IF k \in DOMAIN d THEN d[k] ELSE default

(***************************************************************************)
(* EXCLUDE_PATTERNS and re.match.                                          *)
(***************************************************************************)
\* \s of the re module, on the characters a line can hold (no newline)
IsSpace(c) == c \in {" ", "\t", "\r"}

\* \w of the re module
WordChars ==
    {"a", "b", "c", "d", "e", "f", "g", "h", "i", "j", "k", "l", "m", "n",
     "o", "p", "q", "r", "s", "t", "u", "v", "w", "x", "y", "z",
     "A", "B", "C", "D", "E", "F", "G", "H", "I", "J", "K", "L", "M", "N",
     "O", "P", "Q", "R", "S", "T", "U", "V", "W", "X", "Y", "Z",
     "0", "1", "2", "3", "4", "5", "6", "7", "8", "9", "_"}

IsWord(c) == c \in WordChars

\* the position after a greedy \s* started at i
SkipSpace(s, i) ==
    CHOOSE j \in i..(Len(s) + 1) :
        /\ \A k \in i..(j - 1) : IsSpace(s[k])
        /\ (j = Len(s) + 1 \/ ~IsSpace(s[j]))

\* the position after a greedy \w* started at i
SkipWord(s, i) ==
    CHOOSE j \in i..(Len(s) + 1) :
        /\ \A k \in i..(j - 1) : IsWord(s[k])
        /\ (j = Len(s) + 1 \/ ~IsWord(s[j]))

\* \s*$ at position i
OnlySpaceFrom(s, i) == \A k \in i..Len(s) : IsSpace(s[k])

\* w1\s+w2\s+...wn at position i
RECURSIVE WordsAt(_, _, _)
WordsAt(s, i, ws) ==
    /\ HasAt(s, i, ws[1])
    /\ \/ Len(ws) = 1
       \/ LET j == i + Len(ws[1])
          IN /\ j <= Len(s)
             /\ IsSpace(s[j])
             /\ WordsAt(s, SkipSpace(s, j), Tail(ws))

W_import == <<"i", "m", "p", "o", "r", "t">>
W_package == <<"p", "a", "c", "k", "a", "g", "e">>
W_private == <<"p", "r", "i", "v", "a", "t", "e">>
W_static == <<"s", "t", "a", "t", "i", "c">>
W_final == <<"f", "i", "n", "a", "l">>
W_long == <<"l", "o", "n", "g">>
W_serialVersionUID ==
    <<"s", "e", "r", "i", "a", "l", "V", "e", "r", "s", "i", "o", "n", "U", "I", "D">>

\* re.match(EXCLUDE_PATTERNS[k - 1], line); every pattern starts with ^\s*
PatternMatches(k, line) ==
    LET p == SkipSpace(line, 1)
    IN CASE k = 1 -> p = Len(line) + 1
         [] k = 2 -> HasAt(line, p, <<"/", "/">>)
         [] k = 3 -> HasAt(line, p, <<"/", "*">>)
         [] k = 4 -> HasAt(line, p, <<"*">>)
         [] k = 5 -> HasAt(line, p, <<"*", "/">>)
         [] k = 6 -> /\ HasAt(line, p, W_import)
                     /\ p + Len(W_import) <= Len(line)
                     /\ IsSpace(line[p + Len(W_import)])
         [] k = 7 -> /\ HasAt(line, p, W_package)
                     /\ p + Len(W_package) <= Len(line)
                     /\ IsSpace(line[p + Len(W_package)])
         [] k = 8 -> /\ HasAt(line, p, <<"@">>)
                     /\ SkipWord(line, p + 1) > p + 1
                     /\ OnlySpaceFrom(line, SkipWord(line, p + 1))
         [] k = 9 -> /\ HasAt(line, p, <<"@">>)
                     /\ SkipWord(line, p + 1) > p + 1
                     /\ LET q == SkipWord(line, p + 1)
                        IN /\ HasAt(line, q, <<"(">>)
                           /\ \E r \in (q + 1)..Len(line) :
                                /\ line[r] = ")"
                                /\ \A k2 \in (q + 1)..(r - 1) : line[k2] # ")"
                                /\ OnlySpaceFrom(line, r + 1)
         [] k = 10 -> HasAt(line, p, <<"}">>) /\ OnlySpaceFrom(line, p + 1)
         [] k = 11 -> HasAt(line, p, <<"{">>) /\ OnlySpaceFrom(line, p + 1)
         [] k = 12 -> /\ HasAt(line, p, <<")">>)
                      /\ \/ OnlySpaceFrom(line, p + 1)
                         \/ HasAt(line, p + 1, <<";">>) /\ OnlySpaceFrom(line, p + 2)
         [] k = 13 -> WordsAt(line, p, <<W_private, W_static, W_final, W_long,
                                         W_serialVersionUID>>)

NumPatterns == 13

is_effective_line(line) == \A k \in 1..NumPatterns : ~PatternMatches(k, line)

\* the test of the loop of count_effective_lines
IsCountedLine(line) ==
    /\ startswith(line, <<"+">>)
    /\ ~startswith(line, <<"+", "+", "+">>)
    /\ is_effective_line(SubSeq(line, 2, Len(line)))

count_effective_lines(text) ==
    LET ls == split(text)
    IN Cardinality({i \in 1..Len(ls) : IsCountedLine(ls[i])})


(***************************************************************************)
(* analyze_commit_diff.  A response of the diff endpoint is                *)
(* [ok |-> FALSE] when client.get_commit_diff raises (transport error,     *)
(* timeout, raise_for_status, invalid JSON) and [ok |-> TRUE, body |-> the *)
(* list of per-file dicts] otherwise.                                      *)
(***************************************************************************)
JavaSuffix == <<".", "j", "a", "v", "a">>

RECURSIVE SumJavaEffective(_)
SumJavaEffective(diffs) ==
    IF Len(diffs) = 0 THEN 0
    ELSE (IF endswith(Get(Head(diffs), "new_path", <<>>), JavaSuffix)
          THEN count_effective_lines(Get(Head(diffs), "diff", <<>>))
          ELSE 0) + SumJavaEffective(Tail(diffs))

\* analyze_commit_diff whose except clause returns -1 instead of 0
analyze_commit_diff_failure_counts(resp) ==
    IF resp.ok THEN SumJavaEffective(resp.body) ELSE 0 - 1

analyze_commit_diff(resp) ==
    IF resp.ok THEN SumJavaEffective(resp.body) ELSE 0

(***************************************************************************)
(* The environment of main(): environment variables, GitLab responses,     *)
(* the report file, the notification endpoints.                            *)
(***************************************************************************)
RequiredVars == {"GITLAB_URL", "GITLAB_TOKEN", "GITLAB_GROUP"}
ChannelVars == {"WECOM_WEBHOOK", "DINGTALK_WEBHOOK", "TELEGRAM_BOT_TOKEN",
                "TELEGRAM_CHAT_ID"}
Channels == {"wecom", "dingtalk", "telegram"}

\* the conditions of the three "if" of the dispatch of main()
Enabled(c) ==
    CASE c = "wecom" -> "WECOM_WEBHOOK" \in env
      [] c = "dingtalk" -> "DINGTALK_WEBHOOK" \in env
      [] c = "telegram" -> "TELEGRAM_BOT_TOKEN" \in env /\ "TELEGRAM_CHAT_ID" \in env

\* a listing call (_get_all) raises: raise_for_status on a 4xx/5xx response, or a
\* transport error or timeout of requests.get
ListingErrors == {"http_error", "transport_error"}

\* what requests.post does: a response with status 200, a response with another
\* status, or an exception (connection error, timeout)
PostOutcomes == {"ok", "http_error", "exception"}

\* the group's projects in scope (after the PROJECT_PREFIXES filter)
ProjectAt(i) == [id |-> i, name |-> IF i = 1 THEN "app-a" ELSE
                                    IF i = 2 THEN "svc-b" ELSE "svc-c"]

Title == <<"f", "i", "x">>

\* a commit dict of the commit listing; author and stats keys may be absent
CommitDict(id, withAuthor, withStats) ==
    ("id" :> id) @@ ("title" :> Title)
    @@ (IF withAuthor
        THEN ("author_email" :> "dev@corp") @@ ("author_name" :> "Dev")
        ELSE <<>>)
    @@ (IF withStats
        THEN ("stats" :> [additions |-> 2, deletions |-> 1, total |-> 3])
        ELSE <<>>)

\* the commit lists a listing can return when `listed` commits were returned before
CommitLists(n) ==
    UNION {[1..k -> BOOLEAN \X BOOLEAN] : k \in 0..n}

DiffBody ==
    <<[new_path |-> <<"R", ".", "m", "d">>,
       diff |-> <<"+", "c", " ", "=", " ", "1", ";">>],
      [new_path |-> <<"A", ".", "j", "a", "v", "a">>,
       diff |-> <<"@", "@", NL, " ", "c", NL, "+", "c", " ", "=", " ", "1", ";", NL,
                  "+", "}", NL, "-", "c">>]>>

DiffResponses == {[ok |-> FALSE], [ok |-> TRUE, body |-> DiffBody]}

(***************************************************************************)
(* main() and collect_stats().                                             *)
(***************************************************************************)
\* the except clause of main(): print the trace, return 1
Abort(origin) ==
    /\ pc' = "exit"
    /\ exit_code' = 1
    /\ failure' = origin

CheckConfig ==
    /\ pc = "main"
    /\ IF RequiredVars \subseteq env
       THEN pc' = "projects" /\ exit_code' = exit_code
       ELSE pc' = "exit" /\ exit_code' = 1
    /\ UNCHANGED <<env, projects, pidx, commits, cidx, developers, listed,
                   diff_failed, failure, report_saved, attempted, failed_channels>>
    /\ UNCHANGED notMainVars

\* where the loops of collect_stats stand after commit c of `cs`, the commits of
\* project p of `ps`
AfterCommit(ps, p, c, cs) ==
    IF c < Len(cs) THEN /\ pc' = "commit" /\ pidx' = p /\ cidx' = c + 1
    ELSE IF p < Len(ps) THEN /\ pc' = "commits" /\ pidx' = p + 1 /\ cidx' = 0
    ELSE /\ pc' = "collected" /\ pidx' = p /\ cidx' = 0

GetGroupProjects ==
    /\ pc = "projects"
    /\ \/ /\ \E e \in ListingErrors : Abort("listing")
          /\ UNCHANGED <<projects, pidx, cidx>>
       \/ /\ \E n \in 0..MaxProjects : projects' = [i \in 1..n |-> ProjectAt(i)]
          /\ AfterCommit(projects', 0, 0, <<>>)
          /\ UNCHANGED <<exit_code, failure>>
    /\ UNCHANGED <<env, commits, developers, listed, diff_failed, report_saved,
                   attempted, failed_channels>>
    /\ UNCHANGED notMainVars

\* the commit listing with its failure caught and taken for an empty list
GetProjectCommitsSwallowed ==
    /\ pc = "commits"
    /\ \/ /\ \E e \in ListingErrors : failure' = "listing"
          /\ commits' = <<>>
          /\ AfterCommit(projects, pidx, 0, commits')
          /\ UNCHANGED <<listed, exit_code>>
       \/ /\ \E shape \in CommitLists(MaxCommits - listed) :
                commits' = [i \in 1..Len(shape) |->
                              CommitDict(listed + i, shape[i][1], shape[i][2])]
          /\ listed' = listed + Len(commits')
          /\ AfterCommit(projects, pidx, 0, commits')
          /\ UNCHANGED <<exit_code, failure>>
    /\ UNCHANGED <<env, projects, developers, diff_failed, report_saved, attempted,
                   failed_channels>>
    /\ UNCHANGED notMainVars

GetProjectCommits ==
    /\ pc = "commits"
    /\ \/ /\ \E e \in ListingErrors : Abort("listing")
          /\ UNCHANGED <<commits, pidx, cidx, listed>>
       \/ /\ \E shape \in CommitLists(MaxCommits - listed) :
                commits' = [i \in 1..Len(shape) |->
                              CommitDict(listed + i, shape[i][1], shape[i][2])]
          /\ listed' = listed + Len(commits')
          /\ AfterCommit(projects, pidx, 0, commits')
          /\ UNCHANGED <<exit_code, failure>>
    /\ UNCHANGED <<env, projects, developers, diff_failed, report_saved, attempted,
                   failed_channels>>
    /\ UNCHANGED notMainVars

NewDeveloperStats(name, email) ==
    [name |-> name, email |-> email, commits |-> <<>>, total_additions |-> 0,
     total_deletions |-> 0, effective_additions |-> 0, files_changed |-> 0,
     projects |-> {}]

Min(a, b) == IF a < b THEN a ELSE b

\* the body of the inner loop of collect_stats
ProcessCommit ==
    /\ pc = "commit"
    /\ \E resp \in DiffResponses :
         LET commit == commits[cidx]
             author_email == Get(commit, "author_email", "unknown")
             author_name == Get(commit, "author_name", "Unknown")
             known == IF author_email \in DOMAIN developers
                      THEN developers
                      ELSE developers @@
                           (author_email :> NewDeveloperStats(author_name, author_email))
             stats == Get(commit, "stats", <<>>)
             additions == Get(stats, "additions", 0)
             deletions == Get(stats, "deletions", 0)
             eff == analyze_commit_diff(resp)
             title == Get(commit, "title", <<>>)
             commit_stats == [sha |-> commit["id"],
                              message |-> SubSeq(title, 1, Min(50, Len(title))),
                              additions |-> additions,
                              deletions |-> deletions,
                              effective_additions |-> eff,
                              files_changed |-> 0]
         IN /\ developers' =
                 [known EXCEPT ![author_email] =
                     [@ EXCEPT !.projects = @ \cup {projects[pidx].name},
                               !.commits = Append(@, commit_stats),
                               !.total_additions = @ + additions,
                               !.total_deletions = @ + deletions,
                               !.effective_additions = @ + eff]]
            /\ diff_failed' = IF resp.ok THEN diff_failed
                              ELSE diff_failed \cup {commit["id"]}
    /\ AfterCommit(projects, pidx, cidx, commits)
    /\ UNCHANGED <<env, projects, commits, listed, failure, report_saved, attempted,
                   failed_channels, exit_code>>
    /\ UNCHANGED notMainVars

\* "if not stats: return 0"
NoCommits ==
    /\ pc = "collected"
    /\ DOMAIN developers = {}
    /\ pc' = "exit"
    /\ exit_code' = 0
    /\ UNCHANGED <<env, projects, pidx, commits, cidx, developers, listed,
                   diff_failed, failure, report_saved, attempted, failed_channels>>
    /\ UNCHANGED notMainVars

\* the reports are generated and the markdown report is written to the file;
\* open() or write() may raise
SaveReport ==
    /\ pc = "collected"
    /\ DOMAIN developers # {}
    /\ \/ /\ report_saved' = TRUE
          /\ pc' = "wecom"
          /\ UNCHANGED <<exit_code, failure>>
       \/ /\ Abort("file")
          /\ UNCHANGED report_saved
    /\ UNCHANGED <<env, projects, pidx, commits, cidx, developers, listed,
                   diff_failed, attempted, failed_channels>>
    /\ UNCHANGED notMainVars

\* one "if <configured>: send_<channel>(...)" of main().  send_wecom and
\* send_dingtalk post once and print the status code; send_telegram posts each
\* part and prints per part; none of them catches what requests.post raises.
Dispatch(c, next) ==
    /\ pc = c
    /\ IF ~Enabled(c)
       THEN /\ pc' = next
            /\ UNCHANGED <<attempted, failed_channels, exit_code, failure>>
       ELSE /\ attempted' = attempted \cup {c}
            /\ \E outcome \in PostOutcomes :
                 /\ failed_channels' = IF outcome = "ok" THEN failed_channels
                                       ELSE failed_channels \cup {c}
                 /\ IF outcome = "exception"
                    THEN Abort("notify")
                    ELSE pc' = next /\ UNCHANGED <<exit_code, failure>>
    /\ UNCHANGED <<env, projects, pidx, commits, cidx, developers, listed,
                   diff_failed, report_saved>>
    /\ UNCHANGED notMainVars

SendWecom == Dispatch("wecom", "dingtalk")

SendDingtalk == Dispatch("dingtalk", "telegram")

SendTelegram == Dispatch("telegram", "return")

\* "return 0" at the end of the try block
ReturnZero ==
    /\ pc = "return"
    /\ pc' = "exit"
    /\ exit_code' = 0
    /\ UNCHANGED <<env, projects, pidx, commits, cidx, developers, listed,
                   diff_failed, failure, report_saved, attempted, failed_channels>>
    /\ UNCHANGED notMainVars

\* the variables of the other operations, at rest
PagesIdle == server = <<>> /\ page = 0 /\ results = <<>> /\ requested = <<>> /\ gpc = "idle"
TelegramIdle == content = <<>> /\ parts = <<>> /\ sent = <<>> /\ tpc = "idle"
StandardIdle == dev = <<>> /\ verdict = <<>>
DiffIdle == hunk = <<>> /\ diff_content = <<>> /\ effective = 0 - 1

Init ==
    /\ pc = "main"
    /\ env \in SUBSET (RequiredVars \cup ChannelVars)
    /\ projects = <<>>
    /\ pidx = 0
    /\ commits = <<>>
    /\ cidx = 0
    /\ developers = <<>>
    /\ listed = 0
    /\ diff_failed = {}
    /\ failure = "none"
    /\ report_saved = FALSE
    /\ attempted = {}
    /\ failed_channels = {}
    /\ exit_code = 0 - 1
    /\ PagesIdle /\ TelegramIdle /\ StandardIdle /\ DiffIdle

\* main() at rest, for the specifications of the single operations
MainIdle ==
    /\ pc = "idle" /\ env = {} /\ projects = <<>> /\ pidx = 0 /\ commits = <<>>
    /\ cidx = 0 /\ developers = <<>> /\ listed = 0 /\ diff_failed = {}
    /\ failure = "none" /\ report_saved = FALSE /\ attempted = {}
    /\ failed_channels = {} /\ exit_code = 0 - 1

Next ==
    \/ CheckConfig
    \/ GetGroupProjects
    \/ GetProjectCommits
    \/ ProcessCommit
    \/ NoCommits
    \/ SaveReport
    \/ SendWecom
    \/ SendDingtalk
    \/ SendTelegram
    \/ ReturnZero

Spec == Init /\ [][Next]_vars


(***************************************************************************)
(* GitLabClient._get_all against a listing endpoint that serves the pages  *)
(* of `server` and empty pages after them.                                 *)
(***************************************************************************)
per_page == 100

PageSizes == {0, 37, per_page - 1, per_page}

\* what _get returns for a page: item i of page p is <<p, i>>
PageData(p) ==
    IF p \in 1..Len(server) THEN [i \in 1..server[p] |-> <<p, i>>] ELSE <<>>

\* the page size test with <= for <
LastPageInclusive(data) == Len(data) <= per_page

\* "if len(data) < 100: break"
LastPage(data) == Len(data) < per_page

\* one iteration of the "while True" loop, _get returning the page
GetPage ==
    /\ gpc = "loop"
    /\ requested' = Append(requested, page)
    /\ LET data == PageData(page)
       IN IF data = <<>>
          THEN gpc' = "returned" /\ UNCHANGED <<results, page>>
          ELSE /\ results' = results \o data
               /\ IF LastPage(data)
                  THEN gpc' = "returned" /\ UNCHANGED page
                  ELSE page' = page + 1 /\ UNCHANGED gpc
    /\ UNCHANGED <<server, mainVars, telegramVars, standardVars, diffVars>>

\* one iteration in which _get raises (transport error, raise_for_status)
GetPageRaises ==
    /\ gpc = "loop"
    /\ requested' = Append(requested, page)
    /\ gpc' = "raised"
    /\ UNCHANGED <<server, page, results, mainVars, telegramVars, standardVars,
                   diffVars>>

InitPages ==
    /\ server \in UNION {[1..n -> PageSizes] : n \in 1..MaxPages}
    /\ page = 1
    /\ results = <<>>
    /\ requested = <<>>
    /\ gpc = "loop"
    /\ MainIdle /\ TelegramIdle /\ StandardIdle /\ DiffIdle

NextPages == GetPage \/ GetPageRaises

SpecPages == InitPages /\ [][NextPages]_vars

(***************************************************************************)
(* send_telegram.                                                          *)
(***************************************************************************)
max_len == 4000

\* the "for line in lines" loop from line i on, and the "if current" after it
RECURSIVE SplitLoop(_, _, _, _)
SplitLoop(lines, i, current, ps) ==
    IF i > Len(lines)
    THEN (IF current # <<>> THEN Append(ps, current) ELSE ps)
    ELSE IF Len(current) + Len(lines[i]) + 1 > max_len
         THEN SplitLoop(lines, i + 1, lines[i], Append(ps, current))
         ELSE SplitLoop(lines, i + 1,
                        IF current # <<>> THEN current \o <<NL>> \o lines[i]
                        ELSE lines[i],
                        ps)

\* the parts send_telegram builds from content
telegram_parts(text) ==
    IF Len(text) <= max_len THEN <<text>>
    ELSE SplitLoop(split(text), 1, <<>>, <<>>)

LineLengths == {0, 1, max_len \div 2, max_len - 1, max_len, max_len + 1}

LineChar(i) == IF i = 1 THEN "a" ELSE IF i = 2 THEN "b" ELSE IF i = 3 THEN "c" ELSE "d"

\* the statements before the "for i, part" loop
SplitContent ==
    /\ tpc = "split"
    /\ parts' = telegram_parts(content)
    /\ tpc' = IF Len(parts') = 0 THEN "returned" ELSE "post"
    /\ UNCHANGED <<content, sent, mainVars, pageVars, standardVars, diffVars>>

\* one iteration of the "for i, part" loop: the part is posted; a response is
\* printed whatever its status, an exception of requests.post leaves the function
PostPart ==
    /\ tpc = "post"
    /\ sent' = Append(sent, parts[Len(sent) + 1])
    /\ \E outcome \in PostOutcomes :
         tpc' = IF outcome = "exception" THEN "raised"
                ELSE IF Len(sent') = Len(parts) THEN "returned"
                ELSE "post"
    /\ UNCHANGED <<content, parts, mainVars, pageVars, standardVars, diffVars>>

InitTelegram ==
    /\ \E n \in 1..MaxLines :
         \E f \in [1..n -> LineLengths] :
            content = join([i \in 1..n |-> Rep(LineChar(i), f[i])])
    /\ parts = <<>>
    /\ sent = <<>>
    /\ tpc = "split"
    /\ MainIdle /\ PagesIdle /\ StandardIdle /\ DiffIdle

NextTelegram == SplitContent \/ PostPart

SpecTelegram == InitTelegram /\ [][NextTelegram]_vars


(***************************************************************************)
(* DeveloperStats.meets_standard.  effective_ratio is the Python float     *)
(* effective_additions / total_additions; it is kept here as the pair      *)
(* <<numerator, denominator>> and compared by cross-multiplication, which  *)
(* agrees with the float comparison against 0.6 for every count a day of   *)
(* commits can reach (the quotients differ from 0.6 by far more than a     *)
(* rounding error unless they equal it, and 3/5 rounds to the literal).    *)
(***************************************************************************)
min_effective_lines == 80
min_commits == 2
standard_effective_ratio == <<6, 10>>
ratio_floor == 50

commit_count(d) == Len(d.commits)

effective_ratio(d) ==
    IF d.total_additions = 0 THEN <<0, 1>>
    ELSE <<d.effective_additions, d.total_additions>>

\* r < q for ratios with positive denominators
RatioLess(r, q) == r[1] * q[2] < q[1] * r[2]

\* meets_standard with the ratio check applied whatever total_additions is
meets_standard_without_floor(d) ==
    LET issues ==
          (IF d.effective_additions < min_effective_lines
           THEN <<[check |-> "effective_lines", actual |-> d.effective_additions,
                   required |-> min_effective_lines]>>
           ELSE <<>>)
          \o (IF commit_count(d) < min_commits
              THEN <<[check |-> "commits", actual |-> commit_count(d),
                      required |-> min_commits]>>
              ELSE <<>>)
          \o (IF RatioLess(effective_ratio(d), standard_effective_ratio)
              THEN <<[check |-> "ratio", actual |-> effective_ratio(d),
                      required |-> standard_effective_ratio]>>
              ELSE <<>>)
    IN <<Len(issues) = 0, issues>>

\* the (passed, issues) pair; an issue string is kept as the check it reports and
\* the two values it embeds
meets_standard(d) ==
    LET issues ==
          (IF d.effective_additions < min_effective_lines
           THEN <<[check |-> "effective_lines", actual |-> d.effective_additions,
                   required |-> min_effective_lines]>>
           ELSE <<>>)
          \o (IF commit_count(d) < min_commits
              THEN <<[check |-> "commits", actual |-> commit_count(d),
                      required |-> min_commits]>>
              ELSE <<>>)
          \o (IF /\ RatioLess(effective_ratio(d), standard_effective_ratio)
                 /\ d.total_additions > ratio_floor
              THEN <<[check |-> "ratio", actual |-> effective_ratio(d),
                      required |-> standard_effective_ratio]>>
              ELSE <<>>)
    IN <<Len(issues) = 0, issues>>

EffectiveValues == {0, 29, 30, 31, 50, 79, 80, 81, 120, 121}
TotalValues == {0, 50, 51, 52, 100, 133, 134, 200, 201}

SomeCommit ==
    [sha |-> 1, message |-> Title, additions |-> 0, deletions |-> 0,
     effective_additions |-> 0, files_changed |-> 0]

Evaluate ==
    /\ verdict = <<>>
    /\ verdict' = meets_standard(dev)
    /\ UNCHANGED <<dev, mainVars, pageVars, telegramVars, diffVars>>

InitStandard ==
    /\ \E n \in 0..MaxCommitCount, e \in EffectiveValues, a \in TotalValues :
         dev = [NewDeveloperStats("Dev", "dev@corp") EXCEPT
                   !.commits = Rep(SomeCommit, n),
                   !.effective_additions = e,
                   !.total_additions = a]
    /\ verdict = <<>>
    /\ MainIdle /\ PagesIdle /\ TelegramIdle /\ DiffIdle

NextStandard == Evaluate

SpecStandard == InitStandard /\ [][NextStandard]_vars

(***************************************************************************)
(* count_effective_lines on the diff body of one file.  `hunk` holds the   *)
(* changes the body renders; diff_content is the unified-diff text.        *)
(***************************************************************************)
SampleLines ==
    {<<>>,
     <<" ", " ">>,
     <<"/", "/", " ", "c">>,
     <<"/", "*", " ", "c">>,
     <<" ", "*", " ", "c">>,
     <<"*", "/">>,
     <<"i", "m", "p", "o", "r", "t", " ", "a", ";">>,
     <<"i", "m", "p", "o", "r", "t", "a", ";">>,
     <<"p", "a", "c", "k", "a", "g", "e", " ", "a", ";">>,
     <<"@", "A">>,
     <<"@", "A", "(", "b", ")">>,
     <<"@", "A", "(", "b", ")", " ", "c">>,
     <<"@", "A", " ", "c">>,
     <<"}">>,
     <<"{">>,
     <<")", ";">>,
     <<")">>,
     <<"}", " ", "c">>,
     <<"p", "r", "i", "v", "a", "t", "e", " ", "s", "t", "a", "t", "i", "c", " ", "f", "i", "n", "a", "l", " ", "l", "o", "n", "g", " ", "s", "e", "r", "i", "a", "l", "V", "e", "r", "s", "i", "o", "n", "U", "I", "D">>,
     <<"c", " ", "=", " ", "1", ";">>,
     <<"+", "+", "c", ";">>,
     <<"+", "c">>,
     <<"c", " ", "/", "/", " ", "c">>,
     <<"\t", "c">>}

HunkLines ==
    {[kind |-> "added", text |-> l] : l \in SampleLines}
    \cup {[kind |-> "removed", text |-> <<"c", " ", "=", " ", "1", ";">>],
          [kind |-> "context", text |-> <<"c", " ", "=", " ", "1", ";">>],
          [kind |-> "old_file", text |-> <<"a", "/", "A", ".", "j", "a", "v", "a">>],
          [kind |-> "new_file", text |-> <<"b", "/", "A", ".", "j", "a", "v", "a">>]}

\* the line of the unified diff that renders a change
DiffLine(h) ==
    CASE h.kind = "added" -> <<"+">> \o h.text
      [] h.kind = "removed" -> <<"-">> \o h.text
      [] h.kind = "context" -> <<" ">> \o h.text
      [] h.kind = "old_file" -> <<"-", "-", "-", " ">> \o h.text
      [] h.kind = "new_file" -> <<"+", "+", "+", " ">> \o h.text

CountLines ==
    /\ effective = 0 - 1
    /\ effective' = count_effective_lines(diff_content)
    /\ UNCHANGED <<hunk, diff_content, mainVars, pageVars, telegramVars, standardVars>>

InitDiff ==
    /\ hunk \in UNION {[1..n -> HunkLines] : n \in 1..MaxHunkLines}
    /\ diff_content = join([i \in 1..Len(hunk) |-> DiffLine(hunk[i])])
    /\ effective = 0 - 1
    /\ MainIdle /\ PagesIdle /\ TelegramIdle /\ StandardIdle

NextDiff == CountLines

SpecDiff == InitDiff /\ [][NextDiff]_vars


(***************************************************************************)
(* Properties.                                                             *)
(***************************************************************************)
\* the CommitStats recorded for the commit with this id, over all developers
RecordsOf(id) ==
    {cs \in UNION {{developers[e].commits[i] : i \in 1..Len(developers[e].commits)} :
                     e \in DOMAIN developers} : cs.sha = id}

\* collect_stats has returned to main()
CollectReturned == pc \in {"collected", "wecom", "dingtalk", "telegram", "return"}

\* C1: in the notification dispatch of main(), whichever enabled channel fails
\* (non-success response, transport error or timeout), every other enabled
\* channel is still attempted before main() returns.
C1_FailedChannelDoesNotBlockOthers ==
    pc = "exit" =>
        \A c \in failed_channels :
            \A d \in Channels \ {c} : Enabled(d) => d \in attempted

\* C2: with the required configuration present and no failure of a listing call,
\* main() returns 0 whatever the outcome of each notification channel, also when
\* no commit was found (a failure to write the report file is not a notification
\* outcome and is left out).
C2_NotificationOutcomeKeepsExitZero ==
    (pc = "exit" /\ RequiredVars \subseteq env /\ failure \notin {"listing", "file"})
        => exit_code = 0

\* C3: every developer aggregate built by collect_stats has
\* 0 <= effective_additions <= total_additions, for every combination of commit
\* statistics and diff responses.
C3_EffectiveWithinTotal ==
    \A e \in DOMAIN developers :
        /\ 0 <= developers[e].effective_additions
        /\ developers[e].effective_additions <= developers[e].total_additions

\* C4: a commit whose diff request fails is still recorded, with effective
\* additions 0, and the failure does not stop the collection: unless a listing
\* call fails, every commit the listings returned, of that project and of the
\* later ones, is recorded exactly once when collect_stats is over.
C4_DiffFailureIsAbsorbed ==
    /\ \A id \in diff_failed :
          /\ RecordsOf(id) # {}
          /\ \A cs \in RecordsOf(id) : cs.effective_additions = 0
    /\ (CollectReturned \/ (pc = "exit" /\ failure # "listing"))
          => \A id \in 1..listed : Cardinality(RecordsOf(id)) = 1
    /\ (pc = "exit" /\ failure = "none" /\ RequiredVars \subseteq env)
          => exit_code = 0

\* a reached case of C4: the diff of the only commit of the first project failed,
\* and the commit of the second project was collected after it
C4_Witness ==
    /\ pc = "collected"
    /\ diff_failed = {1}
    /\ listed = 2
    /\ pidx = 2
    /\ Len(commits) = 1
    /\ \A cs \in RecordsOf(1) : cs.effective_additions = 0
    /\ \E cs \in RecordsOf(2) : cs.effective_additions = 1

RECURSIVE PagesUpTo(_)
PagesUpTo(n) == IF n = 0 THEN <<>> ELSE PagesUpTo(n - 1) \o PageData(n)

\* C6: _get_all requests pages 1, 2, 3, ... in order, every page before the last
\* requested one was a full page, it returns right after the first page that is
\* empty or shorter than 100 items, and it returns the pages received, in order;
\* pages of 100, 100 and 37 items give 237 items in 3 requests.
C6_Pagination ==
    /\ requested = [i \in 1..Len(requested) |-> i]
    /\ \A i \in 1..(Len(requested) - 1) : Len(PageData(i)) = 100
    /\ gpc = "loop" => /\ page = Len(requested) + 1
                       /\ \A i \in 1..Len(requested) : Len(PageData(i)) = 100
    /\ gpc = "returned" =>
          /\ Len(requested) >= 1
          /\ Len(PageData(Len(requested))) < 100
          /\ results = PagesUpTo(Len(requested))
    /\ (gpc = "returned" /\ server = <<100, 100, 37>>) =>
          Len(results) = 237 /\ Len(requested) = 3

\* a reached case of C6: the pages of 100, 100 and 37 items
C6_Witness ==
    /\ gpc = "returned"
    /\ server = <<100, 100, 37>>
    /\ requested = <<1, 2, 3>>
    /\ Len(results) = 237

\* C7: every message part send_telegram posts has at most 4000 characters,
\* whatever the lengths of the lines of the content.
C7_PartsWithinCap ==
    \A i \in 1..Len(sent) : Len(sent[i]) <= 4000

\* C8: for a content longer than 4000 characters whose lines are all shorter than
\* 4000, the split gives at least two parts, none empty, and joining the parts
\* with a newline gives back the content (so each part is a run of whole lines).
C8_SplitReconstructs ==
    (/\ tpc # "split"
     /\ Len(content) > 4000
     /\ \A i \in 1..Len(split(content)) : Len(split(content)[i]) < 4000)
        => /\ Len(parts) >= 2
           /\ \A i \in 1..Len(parts) : parts[i] # <<>>
           /\ join(parts) = content

\* the conditions of the standard, as the specification states them
FailingChecks(d) ==
    (IF d.effective_additions < 80 THEN {"effective_lines"} ELSE {})
    \cup (IF Len(d.commits) < 2 THEN {"commits"} ELSE {})
    \cup (IF d.total_additions > 50 /\ 5 * d.effective_additions < 3 * d.total_additions
          THEN {"ratio"} ELSE {})

\* C9: meets_standard returns passed = true iff the issue list is empty, and the
\* list holds exactly one issue per failing condition among: effective < 80,
\* commits < 2, effective/total < 0.6 with total > 50; (80, 2, 100) passes with no
\* issue and (50, 1, 200) fails with three.
C9_StandardVerdict ==
    verdict # <<>> =>
        /\ verdict[1] = (verdict[2] = <<>>)
        /\ Len(verdict[2]) = Cardinality(FailingChecks(dev))
        /\ {verdict[2][i].check : i \in 1..Len(verdict[2])} = FailingChecks(dev)
        /\ (dev.total_additions <= 50 =>
               \A i \in 1..Len(verdict[2]) : verdict[2][i].check # "ratio")
        /\ (dev.effective_additions = 80 /\ Len(dev.commits) = 2
               /\ dev.total_additions = 100) => verdict = <<TRUE, <<>>>>
        /\ (dev.effective_additions = 50 /\ Len(dev.commits) = 1
               /\ dev.total_additions = 200) => (~verdict[1] /\ Len(verdict[2]) = 3)

\* a reached case of C9: the aggregate (50, 1, 200) with its three issues
C9_Witness ==
    /\ verdict # <<>>
    /\ dev.effective_additions = 50
    /\ Len(dev.commits) = 1
    /\ dev.total_additions = 200
    /\ Len(verdict[2]) = 3

\* C10: count_effective_lines counts exactly the added lines of the diff body
\* whose content is effective, the "+++" file header excepted; an added line whose
\* own content starts with "++" and is effective is counted.
C10_CountsEffectiveAddedLines ==
    effective # 0 - 1 =>
        effective = Cardinality({i \in 1..Len(hunk) :
                                    /\ hunk[i].kind = "added"
                                    /\ is_effective_line(hunk[i].text)})

=============================================================================
